---------------------------- MODULE Spec2Model ----------------------------
(***************************************************************************)
(* systemd-stub (src/boot/efi/stub.c): the boot sequencer efi_main, the    *)
(* initrd combination combine_initrd and the loader-variable export        *)
(* export_variables, as a state machine.                                   *)
(*                                                                         *)
(* One action per step of efi_main.  Collaborators (section resolver,     *)
(* secure-boot predicate, TPM log, variable store, cpio packer, page      *)
(* allocator, devicetree installer, kernel transfer) are nondeterministic  *)
(* choices over their possible results.  Every collaborator call is       *)
(* appended to `calls`, the per-run call log.                              *)
(***************************************************************************)
EXTENDS Integers, Sequences, FiniteSets, TLC

(***************************************************************************)
(* Bounds of the model.                                                    *)
(***************************************************************************)
\* width of UINTN in the model (the builds have 32 or 64)
UINTN_BITS == 16
\* boot attempts (runs of efi_main) within one firmware lifetime
MaxBoots == 2

(***************************************************************************)
(* Integer helpers.                                                        *)
(***************************************************************************)
RECURSIVE Pow2(_)
Pow2(k) == IF k = 0 THEN 1 ELSE 2 * Pow2(k - 1)

UINTN_MAX == Pow2(UINTN_BITS) - 1

\* UINTN arithmetic wraps
WrapN(x) == x % (UINTN_MAX + 1)

EFI_PAGE_SHIFT == 12
EFI_PAGE_SIZE == Pow2(EFI_PAGE_SHIFT)

\* gnu-efi: ((a) >> EFI_PAGE_SHIFT) + ((a) & EFI_PAGE_MASK ? 1 : 0)
EFI_SIZE_TO_PAGES(a) == (a \div EFI_PAGE_SIZE) + (IF a % EFI_PAGE_SIZE # 0 THEN 1 ELSE 0)

\* ALIGN_TO(l, 4): rounds up to a multiple of 4; on overflow it yields the
\* maximum value ("indicate overflow"), it never wraps
ALIGN4(l) == IF l > UINTN_MAX - 3 THEN UINTN_MAX ELSE ((l + 3) \div 4) * 4

(***************************************************************************)
(* Status codes and names.                                                 *)
(***************************************************************************)
EFI_SUCCESS == "EFI_SUCCESS"
EFI_NOT_FOUND == "EFI_NOT_FOUND"
EFI_OUT_OF_RESOURCES == "EFI_OUT_OF_RESOURCES"
EFI_LOAD_ERROR == "EFI_LOAD_ERROR"
EFI_DEVICE_ERROR == "EFI_DEVICE_ERROR"
NoStatus == "-"

NULL == "NULL"

\* enum in efi_main
Sections == {"cmdline", "linux", "initrd", "splash", "dtb"}

\* the five loader variables, in the order export_variables handles them
VarNames == <<"LoaderDevicePartUUID", "LoaderImageIdentifier", "LoaderFirmwareInfo",
              "LoaderFirmwareType", "StubInfo">>
VarSet == {VarNames[i] : i \in 1..Len(VarNames)}

\* an entry of the call log: the collaborator, a name or status, a number
Ev(op, arg, n) == [op |-> op, arg |-> arg, n |-> n]

(***************************************************************************)
(* The image: section table and section contents.                          *)
(***************************************************************************)
\* POINTER_TO_PHYSICAL_ADDRESS(loaded_image->ImageBase)
ImageBase == 16 * EFI_PAGE_SIZE

\* offset of each section inside the image, as the resolver reports it
SectionOffset == [cmdline |-> 512, linux |-> 4096, initrd |-> 1024,
                  splash |-> 2048, dtb |-> 3072]

\* pe_memory_locate_sections leaves addrs[s] = 0 for a section it did not find
AddrsOf(sz) == [s \in Sections |-> IF sz[s] > 0 THEN SectionOffset[s] ELSE 0]

NoSections == [s \in Sections |-> 0]

\* byte i (from 0) of the embedded .cmdline section: "c=1c=1..."
CmdlineSectionByte(i) == <<99, 61, 49>>[(i % 3) + 1]

EmbeddedCmdline(len) == [i \in 1..len |-> CmdlineSectionByte(i - 1)]

(***************************************************************************)
(* Command-line selection, efi_main lines 208-227.                         *)
(***************************************************************************)
\* ((char16_t *) LoadOptions)[i], little endian; `mem` is the load-options
\* buffer followed by the byte that happens to lie behind it
Char16At(mem, i) == mem[2 * i + 1] + 256 * mem[2 * i + 2]

\* *(char16_t *) loaded_image->LoadOptions: with LoadOptionsSize = 1 the
\* high byte is read from behind the buffer
FirstChar16(li) == Char16At(li.LoadOptions \o <<li.Slack>>, 0)

LoadOptionsSize(li) == Len(li.LoadOptions)

\* (faulty variant: secure boot is not consulted)
OverrideAcceptedNoSecureBootCheck(secure, cmdline_len, li) ==
    /\ LoadOptionsSize(li) > 0
    /\ FirstChar16(li) > 31

\* (faulty variant: a leading control character is let through)
OverrideAcceptedControlAllowed(secure, cmdline_len, li) ==
    /\ (~secure \/ cmdline_len = 0)
    /\ LoadOptionsSize(li) > 0

\* the condition of the if at lines 214-215 (&& and || short-circuit, so
\* the load options are only read when LoadOptionsSize > 0)
OverrideAccepted(secure, cmdline_len, li) ==
    /\ (~secure \/ cmdline_len = 0)
    /\ LoadOptionsSize(li) > 0
    /\ FirstChar16(li) > 31

\* lines 216-220: cmdline_len = (LoadOptionsSize / sizeof(char16_t)) * sizeof(char),
\* cmdline[i] = (char) ((char16_t *) LoadOptions)[i]
TranscodedLen(li) == (LoadOptionsSize(li) \div 2) * 1

\* (faulty variant: the load options are read byte by byte)
TranscodeByteWise(li) == [i \in 1..TranscodedLen(li) |-> li.LoadOptions[i]]

Transcode(li) == [i \in 1..TranscodedLen(li) |-> Char16At(li.LoadOptions, i - 1) % 256]

NoCmdline == [src |-> NULL, addr |-> 0, bytes |-> <<>>]

\* (faulty variant: the load options are measured whichever command line is used)
SelectCmdlineAlwaysMeasured(secure, sz, ad, li) ==
    LET builtin == IF sz["cmdline"] > 0
                   THEN [src |-> "embedded", addr |-> ImageBase + ad["cmdline"],
                         bytes |-> EmbeddedCmdline(sz["cmdline"])]
                   ELSE NoCmdline
        builtin_len == IF sz["cmdline"] > 0 THEN sz["cmdline"] ELSE 0
    IN  IF OverrideAccepted(secure, builtin_len, li)
        THEN [cmdline |-> [src |-> "owned", addr |-> 0, bytes |-> Transcode(li)],
              cmdline_len |-> TranscodedLen(li),
              measured |-> TRUE]
        ELSE [cmdline |-> builtin, cmdline_len |-> builtin_len, measured |-> TRUE]

\* lines 208-221: the command line efi_main ends up with
SelectCmdline(secure, sz, ad, li) ==
    LET builtin == IF sz["cmdline"] > 0
                   THEN [src |-> "embedded", addr |-> ImageBase + ad["cmdline"],
                         bytes |-> EmbeddedCmdline(sz["cmdline"])]
                   ELSE NoCmdline
        builtin_len == IF sz["cmdline"] > 0 THEN sz["cmdline"] ELSE 0
    IN  IF OverrideAccepted(secure, builtin_len, li)
        THEN [cmdline |-> [src |-> "owned", addr |-> 0, bytes |-> Transcode(li)],
              cmdline_len |-> TranscodedLen(li),
              measured |-> TRUE]
        ELSE [cmdline |-> builtin, cmdline_len |-> builtin_len, measured |-> FALSE]

(***************************************************************************)
(* combine_initrd, lines 20-102.                                           *)
(***************************************************************************)
NoFragment == [ptr |-> NULL, size |-> 0]

Present(f) == f.ptr # NULL

\* (faulty variant: the addition is not checked and wraps)
AddFragmentSizeUnchecked(acc, f) ==
    IF ~Present(f) THEN acc ELSE [ok |-> TRUE, n |-> WrapN(acc.n + f.size)]

\* lines 38-43 (and 44-49, 50-55): one checked addition
AddFragmentSize(acc, f) ==
    IF ~acc.ok \/ ~Present(f) THEN acc
    ELSE IF acc.n > UINTN_MAX - f.size THEN [ok |-> FALSE, n |-> acc.n]
    ELSE [ok |-> TRUE, n |-> acc.n + f.size]

\* lines 37-55
TotalSize(initrd_size, cred, gcred, sysext) ==
    AddFragmentSize(
        AddFragmentSize(
            AddFragmentSize([ok |-> TRUE, n |-> ALIGN4(initrd_size)], cred),
            gcred),
        sysext)

\* one memcpy / memset into the region at cursor w.p (an offset from base)
WriteAt(w, src, len) ==
    [p |-> WrapN(w.p + len),
     writes |-> Append(w.writes, [off |-> w.p, len |-> len, src |-> src])]

\* lines 66-79: the primary initrd and its padding
CopyPrimary(w, initrd_base, initrd_size) ==
    IF initrd_base # 0
    THEN LET w1 == WriteAt(w, "initrd", initrd_size)
             pad == WrapN(ALIGN4(initrd_size) - initrd_size)
         IN  IF pad > 0 THEN WriteAt(w1, "zero", pad) ELSE w1
    ELSE w

\* lines 81-84 (and 86-89, 91-94)
CopyFragment(w, f, name) == IF Present(f) THEN WriteAt(w, name, f.size) ELSE w

\* (faulty variant: the system extensions are copied first)
CopyAllSysextFirst(initrd_base, initrd_size, cred, gcred, sysext) ==
    CopyFragment(
        CopyFragment(
            CopyPrimary(CopyFragment([p |-> 0, writes |-> <<>>], sysext, "sysext"),
                        initrd_base, initrd_size),
            cred, "cred"),
        gcred, "gcred")

\* lines 65-94: every write, in order, and the final cursor
CopyAll(initrd_base, initrd_size, cred, gcred, sysext) ==
    CopyFragment(
        CopyFragment(
            CopyFragment(
                CopyPrimary([p |-> 0, writes |-> <<>>], initrd_base, initrd_size),
                cred, "cred"),
            gcred, "gcred"),
        sysext, "sysext")

NoRegion == [base |-> 0, pages |-> 0, n |-> 0, writes |-> <<>>]

\* base = UINT32_MAX (line 27), the ceiling of the allocation, as the number
\* of the last page below it: UINT32_MAX >> EFI_PAGE_SHIFT
MaxAddressPage == Pow2(32 - EFI_PAGE_SHIFT) - 1

\* (faulty variant: the page count is rounded down)
AllocationRequestRoundedDown(n) ==
    [type |-> "AllocateMaxAddress", memory |-> "EfiLoaderData",
     pages |-> n \div EFI_PAGE_SIZE, max_page |-> MaxAddressPage]

\* lines 57-61: what BS->AllocatePages is asked for
AllocationRequest(n) ==
    [type |-> "AllocateMaxAddress", memory |-> "EfiLoaderData",
     pages |-> EFI_SIZE_TO_PAGES(n), max_page |-> MaxAddressPage]

\* BS->AllocatePages: `mem` is what the firmware has to offer, an error or
\* the first page of a free range; AllocateMaxAddress only hands out pages
\* at or below the ceiling
AllocatePages(req, mem) ==
    IF mem.err # EFI_SUCCESS THEN [err |-> mem.err, base |-> 0]
    ELSE IF /\ req.type = "AllocateMaxAddress"
            /\ (mem.page > req.max_page \/ mem.page + req.pages - 1 > req.max_page)
    THEN [err |-> EFI_OUT_OF_RESOURCES, base |-> 0]
    ELSE [err |-> EFI_SUCCESS, base |-> mem.page * EFI_PAGE_SIZE]

\* combine_initrd; `mem` is what the firmware has to offer to AllocatePages.
\* The result names the status, whether the allocator was called and with how
\* many pages, whether an error was logged, the region written, whether the
\* assertion of line 96 held and whether the output parameters were written.
combine_initrd(initrd_base, initrd_size, cred, gcred, sysext, mem) ==
    LET total == TotalSize(initrd_size, cred, gcred, sysext)
        w == CopyAll(initrd_base, initrd_size, cred, gcred, sysext)
        req == AllocationRequest(total.n)
        alloc == AllocatePages(req, mem)
    IN  IF ~total.ok
        THEN [err |-> EFI_OUT_OF_RESOURCES, allocated |-> FALSE, pages |-> 0,
              logged |-> FALSE, region |-> NoRegion, assert_ok |-> TRUE,
              ret |-> FALSE]
        ELSE IF alloc.err # EFI_SUCCESS
        THEN [err |-> alloc.err, allocated |-> TRUE, pages |-> req.pages,
              logged |-> TRUE, region |-> NoRegion, assert_ok |-> TRUE,
              ret |-> FALSE]
        ELSE [err |-> EFI_SUCCESS, allocated |-> TRUE, pages |-> req.pages,
              logged |-> FALSE,
              region |-> [base |-> alloc.base, pages |-> req.pages,
                          n |-> total.n, writes |-> w.writes],
              assert_ok |-> (w.p = total.n),
              ret |-> (w.p = total.n)]

\* the byte of the region at offset k: the source byte written there last,
\* 0 for padding, "uninit" where nothing was written
RECURSIVE ByteIn(_, _, _)
ByteIn(writes, i, k) ==
    IF i = 0 THEN [src |-> "uninit", idx |-> 0]
    ELSE LET wr == writes[i]
         IN  IF wr.off <= k /\ k < wr.off + wr.len
             THEN [src |-> wr.src, idx |-> IF wr.src = "zero" THEN 0 ELSE k - wr.off]
             ELSE ByteIn(writes, i - 1, k)

ByteAt(reg, k) == ByteIn(reg.writes, Len(reg.writes), k)

(***************************************************************************)
(* export_variables, lines 104-148.                                        *)
(*                                                                         *)
(* The variable store maps each name to its value, NULL when the variable  *)
(* does not exist.  `env` holds what the collaborators answer during one   *)
(* call: getfail[v] (the read of an existing v fails), setok[v] (the write  *)
(* of v succeeds), uuid (NULL: disk_get_part_uuid fails), FilePath (NULL:  *)
(* none), pathstr (NULL: DevicePathToStr fails), vendor, fwrev, uefirev.   *)
(***************************************************************************)
\* "%02u"
Fmt02u(n) == IF n < 10 THEN "0" \o ToString(n) ELSE ToString(n)

\* xpool_print(L"%s %u.%02u", vendor, rev >> 16, rev & 0xffff)
FirmwareInfoString(vendor, rev) ==
    vendor \o " " \o ToString(rev \div 65536) \o "." \o Fmt02u(rev % 65536)

\* xpool_print(L"UEFI %u.%02u", rev >> 16, rev & 0xffff)
FirmwareTypeString(rev) ==
    "UEFI " \o ToString(rev \div 65536) \o "." \o Fmt02u(rev % 65536)

StubInfoString == "systemd-stub GIT_VERSION"

\* efivar_get_raw(LOADER_GUID, v, NULL, NULL): the status
efivar_get_raw(st, v, env) ==
    IF st.store[v] = NULL THEN EFI_NOT_FOUND
    ELSE IF env.getfail[v] THEN EFI_DEVICE_ERROR
    ELSE EFI_SUCCESS

LogGet(st, v, env) ==
    [st EXCEPT !.calls = Append(@, Ev("efivar_get_raw", v, 0))]

\* efivar_set(LOADER_GUID, v, value, 0); its status is ignored
efivar_set(st, v, value, env) ==
    [store |-> IF env.setok[v] THEN [st.store EXCEPT ![v] = value] ELSE st.store,
     calls |-> Append(st.calls, Ev("efivar_set", v, 0))]

\* the test that guards each write: the read did not succeed
NotSetYet(st, v, env) == efivar_get_raw(st, v, env) # EFI_SUCCESS

\* lines 110-112
ExportDevicePartUUID(st, env) ==
    LET v == "LoaderDevicePartUUID"
        s1 == LogGet(st, v, env)
    IN  IF NotSetYet(st, v, env)
        THEN LET s2 == [s1 EXCEPT !.calls = Append(@, Ev("disk_get_part_uuid", "", 0))]
             IN  IF env.uuid # NULL THEN efivar_set(s2, v, env.uuid, env) ELSE s2
        ELSE s1

\* lines 120-129
ExportImageIdentifier(st, env) ==
    LET v == "LoaderImageIdentifier"
        s1 == LogGet(st, v, env)
    IN  IF NotSetYet(st, v, env) /\ env.FilePath # NULL
        THEN LET s2 == [s1 EXCEPT !.calls = Append(@, Ev("DevicePathToStr", "", 0))]
             IN  IF env.pathstr # NULL
                 THEN efivar_set(s2, v, env.pathstr, env)
                 ELSE [s2 EXCEPT !.calls = Append(@, Ev("log_oom", "", 0))]
        ELSE s1

\* (faulty variant: the new value is appended to the one that is there)
ExportFirmwareInfoAppending(st, env) ==
    LET v == "LoaderFirmwareInfo"
        s1 == LogGet(st, v, env)
        old == IF st.store[v] = NULL THEN "" ELSE st.store[v] \o "; "
    IN  IF NotSetYet(st, v, env)
        THEN efivar_set(s1, v, old \o FirmwareInfoString(env.vendor, env.fwrev), env)
        ELSE s1

\* lines 132-136
ExportFirmwareInfo(st, env) ==
    LET v == "LoaderFirmwareInfo"
        s1 == LogGet(st, v, env)
    IN  IF NotSetYet(st, v, env)
        THEN efivar_set(s1, v, FirmwareInfoString(env.vendor, env.fwrev), env)
        ELSE s1

\* lines 139-143
ExportFirmwareType(st, env) ==
    LET v == "LoaderFirmwareType"
        s1 == LogGet(st, v, env)
    IN  IF NotSetYet(st, v, env)
        THEN efivar_set(s1, v, FirmwareTypeString(env.uefirev), env)
        ELSE s1

\* lines 146-147
ExportStubInfo(st, env) ==
    LET v == "StubInfo"
        s1 == LogGet(st, v, env)
    IN  IF NotSetYet(st, v, env)
        THEN efivar_set(s1, v, StubInfoString, env)
        ELSE s1

\* export_variables: the store and the call log after it
export_variables(st, env) ==
    ExportStubInfo(
        ExportFirmwareType(
            ExportFirmwareInfo(
                ExportImageIdentifier(
                    ExportDevicePartUUID(st, env), env), env), env), env)

(***************************************************************************)
(* State of one run of efi_main, and the firmware state it acts on.        *)
(***************************************************************************)
VARIABLES
    pc,                        \* where efi_main stands
    boots,                     \* runs of efi_main so far in this firmware lifetime
    err,                       \* EFI_STATUS err
    loaded_image,              \* LoadOptions (bytes) and the byte behind them
    secure,                    \* what secure_boot_enabled() answers
    szs, addrs,                \* UINTN szs[], addrs[]
    cmdline, cmdline_len,      \* char *cmdline, UINTN cmdline_len
    store,                     \* the firmware variables (LOADER_GUID)
    credential_initrd,         \* pointer and size of each packed fragment
    global_credential_initrd,
    sysext_initrd,
    packed,                    \* what the three pack_cpio calls handed back
    released,                  \* how often each fragment buffer was freed
    linux_base, linux_size,
    initrd_base, initrd_size,
    dt_base, dt_size,
    region,                    \* the pages combine_initrd allocated and wrote
    exec_args,                 \* the arguments handed to linux_exec
    calls                      \* the collaborator calls of this run, in order

vars == <<pc, boots, err, loaded_image, secure, szs, addrs, cmdline, cmdline_len,
          store, credential_initrd, global_credential_initrd, sysext_initrd,
          packed, released, linux_base, linux_size, initrd_base, initrd_size,
          dt_base, dt_size, region, exec_args, calls>>

NoImage == [LoadOptions |-> <<>>, Slack |-> 0]

NoExec == [called |-> FALSE, cmdline |-> NoCmdline, cmdline_len |-> 0,
           linux_base |-> 0, linux_size |-> 0, initrd_base |-> 0, initrd_size |-> 0]

NoneReleased == [cred |-> 0, gcred |-> 0, sysext |-> 0]

NonePacked == [cred |-> NoFragment, gcred |-> NoFragment, sysext |-> NoFragment]

\* the locals of efi_main as its declarations (lines 170-181) leave them
FreshLocals ==
    /\ err = NoStatus
    /\ loaded_image = NoImage
    /\ secure = FALSE
    /\ szs = NoSections
    /\ addrs = NoSections
    /\ cmdline = NoCmdline
    /\ cmdline_len = 0
    /\ credential_initrd = NoFragment
    /\ global_credential_initrd = NoFragment
    /\ sysext_initrd = NoFragment
    /\ packed = NonePacked
    /\ released = NoneReleased
    /\ linux_base = 0
    /\ linux_size = 0
    /\ initrd_base = 0
    /\ initrd_size = 0
    /\ dt_base = 0
    /\ dt_size = 0
    /\ region = NoRegion
    /\ exec_args = NoExec

\* D names the sets the inputs are drawn from
Init(D) ==
    /\ pc = "start"
    /\ boots = 1
    /\ store \in D.stores
    /\ calls = <<>>
    /\ FreshLocals

\* _cleanup_freepool_ (lines 172-173): a return of efi_main frees every
\* fragment pointer that is not NULL
CleanupFreepool(rel, c, g, s) ==
    [cred |-> rel.cred + (IF Present(c) THEN 1 ELSE 0),
     gcred |-> rel.gcred + (IF Present(g) THEN 1 ELSE 0),
     sysext |-> rel.sysext + (IF Present(s) THEN 1 ELSE 0)]

\* log_error_status_stall(status, ...): print the message with the status,
\* stall, and hand the status back
LogErrorStatus(log, status) == Append(log, Ev("log_error", status, 0))

(***************************************************************************)
(* efi_main, lines 183-305.                                                *)
(***************************************************************************)
\* lines 188-196
OpenProtocol(D) ==
    /\ pc = "start"
    /\ \E status \in D.open, li \in D.images, sb \in D.secure :
        IF status # EFI_SUCCESS
        THEN /\ err' = status
             /\ calls' = LogErrorStatus(Append(calls, Ev("OpenProtocol", status, 0)), status)
             /\ pc' = "returned"
             /\ UNCHANGED <<loaded_image, secure>>
        ELSE /\ err' = status
             /\ calls' = Append(calls, Ev("OpenProtocol", status, 0))
             /\ loaded_image' = li
             /\ secure' = sb
             /\ pc' = "locate"
    /\ UNCHANGED <<boots, packed, szs, addrs, cmdline, cmdline_len, store, credential_initrd,
                   global_credential_initrd, sysext_initrd, released, linux_base,
                   linux_size, initrd_base, initrd_size, dt_base, dt_size, region,
                   exec_args>>

\* (faulty variant: an empty .linux section is not noticed)
KernelMissingIgnoresSize(status, sz) == status # EFI_SUCCESS

\* the test of line 199
KernelMissing(status, sz) == status # EFI_SUCCESS \/ sz["linux"] = 0

\* lines 198-203
LocateSections(D) ==
    /\ pc = "locate"
    /\ \E res \in D.tables :
        LET log == Append(calls, Ev("pe_memory_locate_sections", res.err, 0))
        IN  /\ szs' = res.szs
            /\ addrs' = AddrsOf(res.szs)
            /\ IF KernelMissing(res.err, res.szs)
               THEN /\ err' = (IF res.err = EFI_SUCCESS THEN EFI_NOT_FOUND ELSE res.err)
                    /\ calls' = LogErrorStatus(log, err')
                    /\ pc' = "returned"
               ELSE /\ err' = res.err
                    /\ calls' = log
                    /\ pc' = "splash"
    /\ UNCHANGED <<boots, packed, loaded_image, secure, cmdline, cmdline_len, store,
                   credential_initrd, global_credential_initrd, sysext_initrd,
                   released, linux_base, linux_size, initrd_base, initrd_size,
                   dt_base, dt_size, region, exec_args>>

\* line 206; the result is not looked at
Splash(D) ==
    /\ pc = "splash"
    /\ \E status \in D.splash :
        calls' = Append(calls, Ev("graphics_splash", status, szs["splash"]))
    /\ pc' = "cmdline"
    /\ UNCHANGED <<boots, packed, err, loaded_image, secure, szs, addrs, cmdline, cmdline_len,
                   store, credential_initrd, global_credential_initrd, sysext_initrd,
                   released, linux_base, linux_size, initrd_base, initrd_size,
                   dt_base, dt_size, region, exec_args>>

\* lines 208-227; the result of tpm_log_load_options is cast away
CommandLine(D) ==
    /\ pc = "cmdline"
    /\ LET sel == SelectCmdline(secure, szs, addrs, loaded_image)
       IN  /\ cmdline' = sel.cmdline
           /\ cmdline_len' = sel.cmdline_len
           /\ IF sel.measured
              THEN \E status \in D.tpm :
                      calls' = Append(calls, Ev("tpm_log_load_options", status, 0))
              ELSE calls' = calls
    /\ pc' = "export"
    /\ UNCHANGED <<boots, packed, err, loaded_image, secure, szs, addrs, store,
                   credential_initrd, global_credential_initrd, sysext_initrd,
                   released, linux_base, linux_size, initrd_base, initrd_size,
                   dt_base, dt_size, region, exec_args>>

\* line 229
ExportVariables(D) ==
    /\ pc = "export"
    /\ \E env \in D.envs :
        LET st == export_variables([store |-> store, calls |-> calls], env)
        IN  /\ store' = st.store
            /\ calls' = st.calls
    /\ pc' = "pack_cred"
    /\ UNCHANGED <<boots, packed, err, loaded_image, secure, szs, addrs, cmdline, cmdline_len,
                   credential_initrd, global_credential_initrd, sysext_initrd,
                   released, linux_base, linux_size, initrd_base, initrd_size,
                   dt_base, dt_size, region, exec_args>>

\* lines 231-241; pack_cpio leaves the buffer NULL when there is nothing to pack
PackCredentials(D) ==
    /\ pc = "pack_cred"
    /\ \E f \in D.cred :
        /\ credential_initrd' = f
        /\ packed' = [packed EXCEPT !.cred = f]
        /\ calls' = Append(calls, Ev("pack_cpio", "credentials", f.size))
    /\ pc' = "pack_gcred"
    /\ UNCHANGED <<boots, err, loaded_image, secure, szs, addrs, cmdline, cmdline_len,
                   store, global_credential_initrd, sysext_initrd,
                   released, linux_base, linux_size, initrd_base, initrd_size,
                   dt_base, dt_size, region, exec_args>>

\* lines 243-253
PackGlobalCredentials(D) ==
    /\ pc = "pack_gcred"
    /\ \E f \in D.gcred :
        /\ global_credential_initrd' = f
        /\ packed' = [packed EXCEPT !.gcred = f]
        /\ calls' = Append(calls, Ev("pack_cpio", "global_credentials", f.size))
    /\ pc' = "pack_sysext"
    /\ UNCHANGED <<boots, err, loaded_image, secure, szs, addrs, cmdline, cmdline_len,
                   store, credential_initrd, sysext_initrd,
                   released, linux_base, linux_size, initrd_base, initrd_size,
                   dt_base, dt_size, region, exec_args>>

\* (faulty variant: when nothing was packed the three requests are made again)
PackSysextRetries(D) ==
    /\ pc = "pack_sysext"
    /\ \E f \in D.sysext :
        /\ sysext_initrd' = f
        /\ packed' = [packed EXCEPT !.sysext = f]
        /\ calls' = Append(calls, Ev("pack_cpio", "sysext", f.size))
        /\ pc' = (IF Present(credential_initrd) \/ Present(global_credential_initrd)
                      \/ Present(f) \/ Len(calls) > 40
                  THEN "resolve" ELSE "pack_cred")
    /\ UNCHANGED <<boots, err, loaded_image, secure, szs, addrs, cmdline, cmdline_len,
                   store, credential_initrd, global_credential_initrd,
                   released, linux_base, linux_size, initrd_base, initrd_size,
                   dt_base, dt_size, region, exec_args>>

\* lines 255-265
PackSysext(D) ==
    /\ pc = "pack_sysext"
    /\ \E f \in D.sysext :
        /\ sysext_initrd' = f
        /\ packed' = [packed EXCEPT !.sysext = f]
        /\ calls' = Append(calls, Ev("pack_cpio", "sysext", f.size))
    /\ pc' = "resolve"
    /\ UNCHANGED <<boots, err, loaded_image, secure, szs, addrs, cmdline, cmdline_len,
                   store, credential_initrd, global_credential_initrd,
                   released, linux_base, linux_size, initrd_base, initrd_size,
                   dt_base, dt_size, region, exec_args>>

\* (faulty variant: the initrd address is left 0 whatever the section size)
ResolveAddressesInitrdAtZero ==
    /\ pc = "resolve"
    /\ linux_size' = szs["linux"]
    /\ linux_base' = ImageBase + addrs["linux"]
    /\ initrd_size' = szs["initrd"]
    /\ initrd_base' = 0
    /\ dt_size' = szs["dtb"]
    /\ dt_base' = (IF szs["dtb"] # 0 THEN ImageBase + addrs["dtb"] ELSE 0)
    /\ pc' = "combine"
    /\ UNCHANGED <<boots, packed, err, loaded_image, secure, szs, addrs, cmdline, cmdline_len,
                   store, credential_initrd, global_credential_initrd, sysext_initrd,
                   released, region, exec_args, calls>>

\* lines 267-274
ResolveAddresses ==
    /\ pc = "resolve"
    /\ linux_size' = szs["linux"]
    /\ linux_base' = ImageBase + addrs["linux"]
    /\ initrd_size' = szs["initrd"]
    /\ initrd_base' = (IF szs["initrd"] # 0 THEN ImageBase + addrs["initrd"] ELSE 0)
    /\ dt_size' = szs["dtb"]
    /\ dt_base' = (IF szs["dtb"] # 0 THEN ImageBase + addrs["dtb"] ELSE 0)
    /\ pc' = "combine"
    /\ UNCHANGED <<boots, packed, err, loaded_image, secure, szs, addrs, cmdline, cmdline_len,
                   store, credential_initrd, global_credential_initrd, sysext_initrd,
                   released, region, exec_args, calls>>

\* (faulty variant: only the credential fragment is looked at)
AnyFragmentCredOnly(c, g, s) == Present(c)

\* the test of line 276
AnyFragment(c, g, s) == Present(c) \/ Present(g) \/ Present(s)

\* (faulty variant: the status of combine_initrd is not looked at)
CombineFailedNever(r) == FALSE

\* the test of line 284
CombineFailed(r) == r.err # EFI_SUCCESS

\* (faulty variant: the buffer is freed but the pointer is kept)
MfreeKeepsPointer(f) == f

\* mfree(p): frees p (free(NULL) does nothing) and yields NULL
Mfree(f) == [f EXCEPT !.ptr = NULL]

\* lines 276-291.  A failed assertion (line 96) halts inside combine_initrd.
CombineInitrds(D) ==
    /\ pc = "combine"
    /\ IF AnyFragment(credential_initrd, global_credential_initrd, sysext_initrd)
       THEN \E mem \in D.allocs :
            LET r == combine_initrd(initrd_base, initrd_size, credential_initrd,
                                    global_credential_initrd, sysext_initrd, mem)
                log1 == Append(calls, Ev("combine_initrd", r.err, 0))
                log2 == IF r.allocated
                        THEN Append(log1, Ev("AllocatePages", r.err, r.pages))
                        ELSE log1
                log3 == IF r.logged THEN LogErrorStatus(log2, r.err) ELSE log2
            IN  IF CombineFailed(r)
                THEN /\ err' = r.err
                     /\ calls' = log3
                     /\ released' = CleanupFreepool(released, credential_initrd,
                                        global_credential_initrd, sysext_initrd)
                     /\ pc' = "returned"
                     /\ UNCHANGED <<initrd_base, initrd_size, region, credential_initrd,
                                    global_credential_initrd, sysext_initrd>>
                ELSE IF ~r.assert_ok
                THEN /\ calls' = Append(log3, Ev("efi_assert", "", 0))
                     /\ region' = r.region
                     /\ pc' = "halted"
                     /\ UNCHANGED <<err, initrd_base, initrd_size, released,
                                    credential_initrd, global_credential_initrd,
                                    sysext_initrd>>
                ELSE /\ err' = r.err
                     /\ calls' = log3
                     /\ region' = r.region
                     /\ initrd_base' = r.region.base
                     /\ initrd_size' = r.region.n
                     /\ released' = CleanupFreepool(released, credential_initrd,
                                        global_credential_initrd, sysext_initrd)
                     /\ credential_initrd' = Mfree(credential_initrd)
                     /\ global_credential_initrd' = Mfree(global_credential_initrd)
                     /\ sysext_initrd' = Mfree(sysext_initrd)
                     /\ pc' = "dt"
       ELSE /\ pc' = "dt"
            /\ UNCHANGED <<err, calls, released, initrd_base, initrd_size, region,
                           credential_initrd, global_credential_initrd, sysext_initrd>>
    /\ UNCHANGED <<boots, packed, loaded_image, secure, szs, addrs, cmdline, cmdline_len,
                   store, linux_base, linux_size, dt_base, dt_size, exec_args>>

\* (faulty variant: a failed devicetree installation ends the run)
DeviceTreeFatal(D) ==
    /\ pc = "dt"
    /\ IF dt_size > 0
       THEN \E status \in D.dt :
            LET log == Append(calls, Ev("devicetree_install_from_memory", status, dt_size))
            IN  /\ err' = status
                /\ calls' = (IF status # EFI_SUCCESS THEN LogErrorStatus(log, status) ELSE log)
                /\ pc' = (IF status # EFI_SUCCESS THEN "returned" ELSE "exec")
       ELSE /\ pc' = "exec"
            /\ UNCHANGED <<err, calls>>
    /\ UNCHANGED <<boots, packed, loaded_image, secure, szs, addrs, cmdline, cmdline_len,
                   store, credential_initrd, global_credential_initrd, sysext_initrd,
                   released, linux_base, linux_size, initrd_base, initrd_size,
                   dt_base, dt_size, region, exec_args>>

\* lines 293-298; log_error_stall prints and goes on
DeviceTree(D) ==
    /\ pc = "dt"
    /\ IF dt_size > 0
       THEN \E status \in D.dt :
            LET log == Append(calls, Ev("devicetree_install_from_memory", status, dt_size))
            IN  /\ err' = status
                /\ calls' = (IF status # EFI_SUCCESS THEN LogErrorStatus(log, status) ELSE log)
       ELSE UNCHANGED <<err, calls>>
    /\ pc' = "exec"
    /\ UNCHANGED <<boots, packed, loaded_image, secure, szs, addrs, cmdline, cmdline_len,
                   store, credential_initrd, global_credential_initrd, sysext_initrd,
                   released, linux_base, linux_size, initrd_base, initrd_size,
                   dt_base, dt_size, region, exec_args>>

NoReturn == "NO_RETURN"

\* (faulty variant: the failure is reported before the display is restored)
LinuxExecReportsFirst(D) ==
    /\ pc = "exec"
    /\ exec_args' = [called |-> TRUE, cmdline |-> cmdline, cmdline_len |-> cmdline_len,
                     linux_base |-> linux_base, linux_size |-> linux_size,
                     initrd_base |-> initrd_base, initrd_size |-> initrd_size]
    /\ \E out \in D.exec :
        LET log == Append(calls, Ev("linux_exec", out, 0))
        IN  IF out = NoReturn
            THEN /\ calls' = log
                 /\ pc' = "kernel"
                 /\ UNCHANGED <<err, released>>
            ELSE /\ err' = out
                 /\ calls' = Append(LogErrorStatus(log, out), Ev("graphics_mode", "text", 0))
                 /\ released' = CleanupFreepool(released, credential_initrd,
                                    global_credential_initrd, sysext_initrd)
                 /\ pc' = "returned"
    /\ UNCHANGED <<boots, packed, loaded_image, secure, szs, addrs, cmdline, cmdline_len,
                   store, credential_initrd, global_credential_initrd, sysext_initrd,
                   linux_base, linux_size, initrd_base, initrd_size,
                   dt_base, dt_size, region>>

\* lines 300-304; linux_exec only comes back when it failed
LinuxExec(D) ==
    /\ pc = "exec"
    /\ exec_args' = [called |-> TRUE, cmdline |-> cmdline, cmdline_len |-> cmdline_len,
                     linux_base |-> linux_base, linux_size |-> linux_size,
                     initrd_base |-> initrd_base, initrd_size |-> initrd_size]
    /\ \E out \in D.exec :
        LET log == Append(calls, Ev("linux_exec", out, 0))
        IN  IF out = NoReturn
            THEN /\ calls' = log
                 /\ pc' = "kernel"
                 /\ UNCHANGED <<err, released>>
            ELSE /\ err' = out
                 /\ calls' = LogErrorStatus(Append(log, Ev("graphics_mode", "text", 0)), out)
                 /\ released' = CleanupFreepool(released, credential_initrd,
                                    global_credential_initrd, sysext_initrd)
                 /\ pc' = "returned"
    /\ UNCHANGED <<boots, packed, loaded_image, secure, szs, addrs, cmdline, cmdline_len,
                   store, credential_initrd, global_credential_initrd, sysext_initrd,
                   linux_base, linux_size, initrd_base, initrd_size,
                   dt_base, dt_size, region>>

\* efi_main returned: the firmware may start the image (or another one built
\* with this stub) again; the variable store is all that outlives the run
NextAttempt ==
    /\ pc = "returned"
    /\ boots < MaxBoots
    /\ boots' = boots + 1
    /\ pc' = "start"
    /\ calls' = <<>>
    /\ err' = NoStatus
    /\ loaded_image' = NoImage
    /\ secure' = FALSE
    /\ szs' = NoSections
    /\ addrs' = NoSections
    /\ cmdline' = NoCmdline
    /\ cmdline_len' = 0
    /\ credential_initrd' = NoFragment
    /\ global_credential_initrd' = NoFragment
    /\ sysext_initrd' = NoFragment
    /\ packed' = NonePacked
    /\ released' = NoneReleased
    /\ linux_base' = 0
    /\ linux_size' = 0
    /\ initrd_base' = 0
    /\ initrd_size' = 0
    /\ dt_base' = 0
    /\ dt_size' = 0
    /\ region' = NoRegion
    /\ exec_args' = NoExec
    /\ UNCHANGED store

Next(D) ==
    \/ OpenProtocol(D)
    \/ LocateSections(D)
    \/ Splash(D)
    \/ CommandLine(D)
    \/ ExportVariables(D)
    \/ PackCredentials(D)
    \/ PackGlobalCredentials(D)
    \/ PackSysext(D)
    \/ ResolveAddresses
    \/ CombineInitrds(D)
    \/ DeviceTree(D)
    \/ LinuxExec(D)
    \/ NextAttempt

(***************************************************************************)
(* The inputs.                                                             *)
(***************************************************************************)
\* load options: empty, one byte, one unit (printable, control, high byte
\* set), three bytes, two units, two units (the second with its high byte
\* set) and a half
LoadOptionsChoices ==
    {<<>>, <<65>>, <<31>>, <<65, 1>>, <<31, 0>>, <<0, 1>>, <<97, 0, 98>>,
     <<97, 0, 98, 0>>, <<97, 0, 98, 1, 99>>}

\* the byte behind the buffer only matters when the buffer is one byte long
LoadedImages ==
    {[LoadOptions |-> lo, Slack |-> 0] : lo \in LoadOptionsChoices}
    \cup {[LoadOptions |-> lo, Slack |-> 1] : lo \in {<<65>>, <<31>>}}

\* what pe_memory_locate_sections answers: an error, or the sizes of the
\* sections of the image
SectionTables(cmdlines, initrds, dtbs) ==
    {[err |-> EFI_LOAD_ERROR, szs |-> NoSections]}
    \cup {[err |-> EFI_SUCCESS,
           szs |-> [cmdline |-> c, linux |-> l, initrd |-> i, splash |-> 16,
                    dtb |-> d]] :
          c \in cmdlines, l \in {0, EFI_PAGE_SIZE}, i \in initrds, d \in dtbs}

Fragment(name, size) == [ptr |-> name, size |-> size]

Fragments(name, sizes) == {NoFragment} \cup {Fragment(name, n) : n \in sizes}

AllNull == [v \in VarSet |-> NULL]

PriorValue(v) == "prior " \o v

AllPrior == [v \in VarSet |-> PriorValue(v)]

\* the collaborators of export_variables during one call
Env(getfail, setok, uuid, FilePath, pathstr) ==
    [getfail |-> getfail, setok |-> setok, uuid |-> uuid, FilePath |-> FilePath,
     pathstr |-> pathstr, vendor |-> "EDK II", fwrev |-> 65536,
     uefirev |-> 2 * 65536 + 70]

PartUUID == "0fc63daf-8483-4772-8e79-3d69d8477de4"

ImagePath == "\\EFI\\Linux\\linux.efi"

\* all succeed / the reads fail / the writes and the lookups fail / the
\* lookup and the path conversion fail
EnvsFew ==
    {Env([v \in VarSet |-> FALSE], [v \in VarSet |-> TRUE], PartUUID, "FilePath", ImagePath),
     Env([v \in VarSet |-> TRUE], [v \in VarSet |-> TRUE], PartUUID, "FilePath", ImagePath),
     Env([v \in VarSet |-> FALSE], [v \in VarSet |-> FALSE], NULL, NULL, NULL),
     Env([v \in VarSet |-> FALSE], [v \in VarSet |-> TRUE], NULL, "FilePath", NULL)}

\* every combination of read results per variable; the writes all succeed
\* or all fail
EnvsAll ==
    {Env(g, [v \in VarSet |-> s], u, f, ps) :
        g \in [VarSet -> BOOLEAN], s \in BOOLEAN,
        u \in {NULL, PartUUID}, f \in {NULL, "FilePath"}, ps \in {NULL, ImagePath}}

Statuses == {EFI_SUCCESS, EFI_DEVICE_ERROR}

\* what the firmware has to offer: free pages at 1 MiB, free pages only from
\* 4 GiB on, nothing
Allocations ==
    {[err |-> EFI_SUCCESS, page |-> 256],
     [err |-> EFI_SUCCESS, page |-> MaxAddressPage + 1],
     [err |-> EFI_OUT_OF_RESOURCES, page |-> 0]}

\* the sequencer: every kind of load options, image and collaborator result
\* (ALIGN4(10) + (UINTN_MAX - 19) + 7 = UINTN_MAX, the largest total)
DMain ==
    [stores |-> {AllNull, AllPrior},
     open |-> Statuses,
     images |-> LoadedImages,
     secure |-> BOOLEAN,
     tables |-> SectionTables({0, 3}, {0, 10}, {0, 8}),
     splash |-> Statuses,
     tpm |-> Statuses,
     envs |-> EnvsFew,
     cred |-> Fragments("cred", {7, UINTN_MAX - 19}),
     gcred |-> Fragments("gcred", {7}),
     sysext |-> Fragments("sysext", {7}),
     allocs |-> Allocations,
     dt |-> Statuses,
     exec |-> {NoReturn, EFI_LOAD_ERROR}]

Spec == Init(DMain) /\ [][Next(DMain)]_vars

\* combine_initrd: every presence pattern of the fragments, sizes from empty
\* to the largest
DCombine ==
    [stores |-> {AllNull},
     open |-> Statuses,
     images |-> {[LoadOptions |-> <<>>, Slack |-> 0]},
     secure |-> {TRUE},
     tables |-> SectionTables({3}, {0, 1, 10, 12, UINTN_MAX - 19, UINTN_MAX - 3,
                                    UINTN_MAX - 2, UINTN_MAX - 1, UINTN_MAX}, {0, 8}),
     splash |-> {EFI_SUCCESS},
     tpm |-> Statuses,
     envs |-> {Env([v \in VarSet |-> FALSE], [v \in VarSet |-> TRUE], PartUUID,
                   "FilePath", ImagePath)},
     cred |-> Fragments("cred", {0, 1, 7, UINTN_MAX - 19, UINTN_MAX}),
     gcred |-> Fragments("gcred", {0, 5, UINTN_MAX - 19}),
     sysext |-> Fragments("sysext", {0, 3, UINTN_MAX - 19}),
     allocs |-> Allocations,
     dt |-> Statuses,
     exec |-> {NoReturn, EFI_LOAD_ERROR}]

SpecCombine == Init(DCombine) /\ [][Next(DCombine)]_vars

\* export_variables: every initial store, every collaborator result
DExport ==
    [stores |-> {AllNull, AllPrior}
                \cup {[AllNull EXCEPT ![v] = PriorValue(v)] : v \in VarSet},
     open |-> {EFI_SUCCESS},
     images |-> {[LoadOptions |-> <<>>, Slack |-> 0]},
     secure |-> {TRUE},
     tables |-> SectionTables({3}, {10}, {0}),
     splash |-> {EFI_SUCCESS},
     tpm |-> Statuses,
     envs |-> EnvsAll,
     cred |-> Fragments("cred", {7}),
     gcred |-> {NoFragment},
     sysext |-> {NoFragment},
     allocs |-> Allocations,
     dt |-> Statuses,
     exec |-> {NoReturn, EFI_LOAD_ERROR}]

SpecExport == Init(DExport) /\ [][Next(DExport)]_vars


\* the steps of efi_main: the code runs on, and every collaborator answers
Step(D) ==
    \/ OpenProtocol(D)
    \/ LocateSections(D)
    \/ Splash(D)
    \/ CommandLine(D)
    \/ ExportVariables(D)
    \/ PackCredentials(D)
    \/ PackGlobalCredentials(D)
    \/ PackSysext(D)
    \/ ResolveAddresses
    \/ CombineInitrds(D)
    \/ DeviceTree(D)
    \/ LinuxExec(D)

\* the sequencer under fairness: every path of efi_main, few values each
DLive ==
    [stores |-> {AllNull},
     open |-> Statuses,
     images |-> {[LoadOptions |-> lo, Slack |-> 0] : lo \in {<<>>, <<97, 0, 98, 0>>}},
     secure |-> BOOLEAN,
     tables |-> SectionTables({3}, {10}, {0, 8}),
     splash |-> Statuses,
     tpm |-> Statuses,
     envs |-> {Env([v \in VarSet |-> FALSE], [v \in VarSet |-> TRUE], PartUUID,
                   "FilePath", ImagePath)},
     cred |-> Fragments("cred", {7, UINTN_MAX - 19}),
     gcred |-> Fragments("gcred", {7}),
     sysext |-> Fragments("sysext", {7}),
     allocs |-> Allocations,
     dt |-> Statuses,
     exec |-> {NoReturn, EFI_LOAD_ERROR}]

SpecLive == Init(DLive) /\ [][Next(DLive)]_vars /\ WF_vars(Step(DLive))


(***************************************************************************)
(* Properties.                                                             *)
(***************************************************************************)
Did(op) == \E i \in 1..Len(calls) : calls[i].op = op

Count(op) == Cardinality({i \in 1..Len(calls) : calls[i].op = op})

\* the log entry of the first call of op in this run
CallOf(op) == calls[CHOOSE i \in 1..Len(calls) : calls[i].op = op]

\* the command line has been selected in this run
PastCmdline == Did("graphics_splash") /\ pc # "cmdline"

\* the embedded command line: a pointer into the image and the section bytes
EmbeddedCmd ==
    [src |-> "embedded", addr |-> ImageBase + SectionOffset["cmdline"],
     bytes |-> [i \in 1..szs["cmdline"] |-> CmdlineSectionByte(i - 1)]]

\* the first 16-bit code unit of the load options as the test reads it
FirstUnitRead ==
    LET lo == loaded_image.LoadOptions
    IN  IF Len(lo) >= 2 THEN lo[1] + 256 * lo[2] ELSE lo[1] + 256 * loaded_image.Slack

\* C1: with secure boot enabled and a non-empty embedded cmdline section, the
\* command line handed to linux_exec is the embedded section (pointer, bytes
\* and length) whatever the load options are, and the load options are not
\* measured: the arguments depend on the image alone.
C1_EmbeddedWinsUnderSecureBoot ==
    (secure /\ szs["cmdline"] > 0) =>
        /\ ~Did("tpm_log_load_options")
        /\ PastCmdline => (cmdline = EmbeddedCmd /\ cmdline_len = szs["cmdline"])
        /\ exec_args.called =>
              /\ exec_args.cmdline = EmbeddedCmd
              /\ exec_args.cmdline_len = szs["cmdline"]

C1_Witness ==
    /\ exec_args.called
    /\ secure
    /\ szs["cmdline"] = 3
    /\ loaded_image.LoadOptions = <<97, 0, 98, 0>>
    /\ exec_args.cmdline.bytes = <<99, 61, 49>>

\* the rule of the spec: secure boot off or no embedded command line, and
\* load options that are non-empty and do not start with a control character
OverrideRule ==
    /\ (~secure \/ szs["cmdline"] = 0)
    /\ Len(loaded_image.LoadOptions) > 0
    /\ FirstUnitRead > 31

\* C2: the override is used exactly when the rule holds; otherwise the
\* embedded command line is used unmodified, and when there is neither the
\* command line is empty and the run goes on: after the selection only
\* combine_initrd or linux_exec end a run.
C2_CmdlineSelection ==
    PastCmdline =>
        /\ (cmdline.src = "owned") <=> OverrideRule
        /\ (~OverrideRule /\ szs["cmdline"] > 0) =>
              (cmdline = EmbeddedCmd /\ cmdline_len = szs["cmdline"])
        /\ (~OverrideRule /\ szs["cmdline"] = 0) =>
              (cmdline = NoCmdline /\ cmdline_len = 0)
        /\ pc = "returned" => (Did("combine_initrd") \/ Did("linux_exec"))
        /\ exec_args.called =>
              (exec_args.cmdline = cmdline /\ exec_args.cmdline_len = cmdline_len)

C2_Witness ==
    /\ exec_args.called
    /\ ~secure
    /\ szs["cmdline"] = 3
    /\ loaded_image.LoadOptions = <<97, 0, 98, 0>>
    /\ exec_args.cmdline.src = "owned"
    /\ exec_args.cmdline.bytes = <<97, 98>>

\* the override, every whole 16-bit unit cut to its low byte
WholeOverride ==
    LET lo == loaded_image.LoadOptions
    IN  [i \in 1..(Len(lo) \div 2) |-> lo[2 * i - 1]]

\* load options that are non-empty and do not begin with a control character
\* (judged on the bytes the caller supplied)
OverrideSupplied ==
    LET lo == loaded_image.LoadOptions
    IN  /\ Len(lo) > 0
        /\ (IF Len(lo) >= 2 THEN lo[1] + 256 * lo[2] ELSE lo[1]) > 31

\* C3: whenever the embedded cmdline section is non-empty, or the load
\* options are non-empty and do not begin with a control character, the
\* command line handed to linux_exec is not empty and is either the embedded
\* section or the transcoded override.
C3_NeverNoneIfSourceExists ==
    (exec_args.called /\ (szs["cmdline"] > 0 \/ OverrideSupplied)) =>
        /\ exec_args.cmdline_len > 0
        /\ \/ exec_args.cmdline = EmbeddedCmd
           \/ exec_args.cmdline.bytes = WholeOverride

AnyPacked == Present(packed.cred) \/ Present(packed.gcred) \/ Present(packed.sysext)

SizeOf(f) == IF Present(f) THEN f.size ELSE 0

\* align4 over the integers
MathAlign4(x) == ((x + 3) \div 4) * 4

\* align4(primary size) + the sizes of the fragments present, over the integers
ExpectedTotal ==
    MathAlign4(szs["initrd"]) + SizeOf(packed.cred) + SizeOf(packed.gcred)
        + SizeOf(packed.sysext)

\* the byte the combined initrd is to hold at offset k
ExpectedByte(k) ==
    LET isz == szs["initrd"]
        a == MathAlign4(isz)
        c == a + SizeOf(packed.cred)
        g == c + SizeOf(packed.gcred)
    IN  IF k < isz THEN [src |-> "initrd", idx |-> k]
        ELSE IF k < a THEN [src |-> "zero", idx |-> 0]
        ELSE IF k < c THEN [src |-> "cred", idx |-> k - a]
        ELSE IF k < g THEN [src |-> "gcred", idx |-> k - c]
        ELSE [src |-> "sysext", idx |-> k - g]

\* the first offsets and the offsets around every boundary of the layout
SampleOffsets(n) ==
    LET isz == szs["initrd"]
        a == MathAlign4(isz)
        c == a + SizeOf(packed.cred)
        g == c + SizeOf(packed.gcred)
        edges == {0, isz, a, c, g, n}
    IN  {k \in (0..31) \cup edges \cup {e - 1 : e \in edges} \cup {e + 1 : e \in edges} :
            0 <= k /\ k < n}

\* the writes tile [0, n): each starts where the one before ended
Tiled(reg) ==
    /\ \A i \in 1..Len(reg.writes) :
          reg.writes[i].off = (IF i = 1 THEN 0
                               ELSE reg.writes[i - 1].off + reg.writes[i - 1].len)
    /\ Len(reg.writes) > 0
    /\ LET l == reg.writes[Len(reg.writes)] IN l.off + l.len = reg.n

\* C4: when no overflow occurs and the allocation succeeds, combine_initrd
\* returns size = align4(primary size) + the sizes of the fragments present,
\* and the region holds the primary bytes, zeros up to the 4-byte boundary,
\* then the credential, the global-credential and the system-extension
\* fragment, adjacent, with nothing else between or behind them.
C4_CombinedLayout ==
    (Did("combine_initrd") /\ ExpectedTotal <= UINTN_MAX) =>
        /\ Did("AllocatePages")
        /\ pc # "halted"
        /\ CallOf("AllocatePages").arg = EFI_SUCCESS =>
              /\ CallOf("combine_initrd").arg = EFI_SUCCESS
              /\ region.n = ExpectedTotal
              /\ initrd_size = ExpectedTotal
              /\ initrd_base = region.base
              /\ Tiled(region)
              /\ \A k \in SampleOffsets(region.n) : ByteAt(region, k) = ExpectedByte(k)

C4_Witness ==
    /\ Did("combine_initrd")
    /\ szs["initrd"] = 10
    /\ packed = [NonePacked EXCEPT !.cred = [ptr |-> "cred", size |-> 7]]
    /\ initrd_size = 19
    /\ ByteAt(region, 9) = [src |-> "initrd", idx |-> 9]
    /\ ByteAt(region, 10).src = "zero"
    /\ ByteAt(region, 11).src = "zero"
    /\ ByteAt(region, 12) = [src |-> "cred", idx |-> 0]
    /\ ByteAt(region, 18) = [src |-> "cred", idx |-> 6]

\* C5: whenever align4(primary size) plus the sizes of the fragments present
\* exceeds UINTN_MAX (also when the rounding alone exceeds it), combine_initrd
\* fails with EFI_OUT_OF_RESOURCES and the page allocator is not called.
C5_OverflowFailsBeforeAllocation ==
    (Did("combine_initrd") /\ ExpectedTotal > UINTN_MAX) =>
        /\ CallOf("combine_initrd").arg = EFI_OUT_OF_RESOURCES
        /\ ~Did("AllocatePages")

\* C6: every fatal failure is reported with its status before efi_main ends,
\* and the report is the last thing the run does.
C6_FatalFailureReported ==
    pc = "returned" =>
        /\ Len(calls) > 0
        /\ calls[Len(calls)] = Ev("log_error", err, 0)

\* C7: if section resolution fails or the .linux section is empty, the run
\* ends at once with a reported error (EFI_NOT_FOUND when the resolution
\* itself succeeded) and nothing else was done: no splash, measurement,
\* variable access, packaging, allocation, devicetree install, linux_exec.
C7_NoKernelStopsAtStepOne ==
    (Did("pe_memory_locate_sections")
     /\ (CallOf("pe_memory_locate_sections").arg # EFI_SUCCESS \/ szs["linux"] = 0)) =>
        LET status == CallOf("pe_memory_locate_sections").arg
        IN  /\ pc = "returned"
            /\ err = (IF status = EFI_SUCCESS THEN EFI_NOT_FOUND ELSE status)
            /\ calls = <<Ev("OpenProtocol", EFI_SUCCESS, 0),
                         Ev("pe_memory_locate_sections", status, 0),
                         Ev("log_error", err, 0)>>
            /\ ~exec_args.called
            /\ region = NoRegion
            /\ packed = NonePacked
            /\ released = NoneReleased

C7_Witness ==
    /\ pc = "returned"
    /\ err = EFI_NOT_FOUND
    /\ szs["linux"] = 0
    /\ szs["cmdline"] = 3
    /\ Did("pe_memory_locate_sections")

PackCount(name) ==
    Cardinality({i \in 1..Len(calls) : calls[i].op = "pack_cpio" /\ calls[i].arg = name})

\* C8: in a run linux_exec is called at most once, only after the sections
\* were resolved with a non-empty .linux and, when a fragment is present,
\* after combine_initrd returned success, never after it failed; every other
\* collaborator step is attempted at most once.
C8_AtMostOnceAndInOrder ==
    /\ \A op \in {"linux_exec", "graphics_splash", "tpm_log_load_options",
                  "AllocatePages", "devicetree_install_from_memory",
                  "combine_initrd", "pe_memory_locate_sections"} : Count(op) <= 1
    /\ \A name \in {"credentials", "global_credentials", "sysext"} : PackCount(name) <= 1
    /\ Did("linux_exec") =>
          /\ Did("pe_memory_locate_sections")
          /\ CallOf("pe_memory_locate_sections").arg = EFI_SUCCESS
          /\ szs["linux"] > 0
          /\ AnyPacked =>
                \E i, j \in 1..Len(calls) :
                    /\ i < j
                    /\ calls[i] = Ev("combine_initrd", EFI_SUCCESS, 0)
                    /\ calls[j].op = "linux_exec"
          /\ \A i \in 1..Len(calls) :
                calls[i].op = "combine_initrd" => calls[i].arg = EFI_SUCCESS

C8_Witness ==
    /\ pc = "kernel"
    /\ Did("linux_exec")
    /\ Did("combine_initrd")
    /\ Did("devicetree_install_from_memory")
    /\ Present(packed.gcred)

\* where the embedded .initrd section lies
EmbeddedInitrdBase ==
    IF szs["initrd"] > 0 THEN ImageBase + SectionOffset["initrd"] ELSE 0

\* the combine step of this run is over and the run went on
BeyondCombine == pc \in {"dt", "exec", "kernel"} \/ Did("linux_exec")

\* C9: combine_initrd is invoked exactly when a packaging request produced a
\* fragment; when none did, no page is allocated and the initrd address and
\* size handed to linux_exec are those of the embedded section (address 0
\* when the section is empty).
C9_NoFragmentsNoCombine ==
    /\ Did("combine_initrd") => AnyPacked
    /\ (BeyondCombine /\ AnyPacked) => Did("combine_initrd")
    /\ ~AnyPacked =>
          /\ ~Did("AllocatePages")
          /\ region = NoRegion
          /\ BeyondCombine =>
                (initrd_base = EmbeddedInitrdBase /\ initrd_size = szs["initrd"])
          /\ exec_args.called =>
                /\ exec_args.initrd_base = EmbeddedInitrdBase
                /\ exec_args.initrd_size = szs["initrd"]

C9_Witness ==
    /\ exec_args.called
    /\ ~AnyPacked
    /\ szs["initrd"] = 10
    /\ exec_args.initrd_size = 10
    /\ exec_args.initrd_base = ImageBase + 1024

\* C10: export_variables never overwrites a loader variable that already
\* has a value: once present, its value stays the same.
C10_NeverOverwritten ==
    [][\A v \in VarSet : store[v] # NULL => store'[v] = store[v]]_vars

\* the result of another export_variables on the store st, the collaborators
\* answering as env says
ExportAgain(st, env) == export_variables([store |-> st, calls |-> <<>>], env).store

\* C11: export_variables is idempotent: with the collaborators answering the
\* same way, a second export_variables on the store the first one left
\* leaves all five variables as they are.
C11_ExportIdempotent ==
    pc = "export" =>
        \A env \in EnvsAll :
            LET once == ExportAgain(store, env)
            IN  ExportAgain(once, env) = once

\* the second run of export_variables on a store the first run filled: it reads
\* all five variables and writes none
C11_Witness ==
    /\ pc = "pack_cred"
    /\ boots = 2
    /\ Count("efivar_get_raw") = 5
    /\ ~Did("efivar_set")
    /\ store["LoaderDevicePartUUID"] = PartUUID
    /\ store["LoaderFirmwareInfo"] = "EDK II 1.00"
    /\ store["LoaderFirmwareType"] = PriorValue("LoaderFirmwareType")
    /\ store["StubInfo"] = StubInfoString

\* what linux_exec is to be given, from the image, the load options, the
\* secure-boot state, the fragments and the allocator alone
ExpectedExec ==
    [called |-> TRUE,
     cmdline |-> IF OverrideRule
                 THEN [src |-> "owned", addr |-> 0, bytes |-> WholeOverride]
                 ELSE IF szs["cmdline"] > 0 THEN EmbeddedCmd ELSE NoCmdline,
     cmdline_len |-> IF OverrideRule THEN Len(loaded_image.LoadOptions) \div 2
                     ELSE szs["cmdline"],
     linux_base |-> ImageBase + SectionOffset["linux"],
     linux_size |-> szs["linux"],
     initrd_base |-> IF AnyPacked THEN region.base ELSE EmbeddedInitrdBase,
     initrd_size |-> IF AnyPacked THEN ExpectedTotal ELSE szs["initrd"]]

\* a run ended by a fatal step: protocol lookup, section resolution,
\* combine_initrd, or linux_exec coming back
EndedByFatalStep ==
    \/ CallOf("OpenProtocol").arg # EFI_SUCCESS
    \/ (Did("pe_memory_locate_sections") /\ ~Did("graphics_splash"))
    \/ (Did("combine_initrd") /\ CallOf("combine_initrd").arg # EFI_SUCCESS)
    \/ Did("linux_exec")

\* C12: the results of splash, measurement, variable reads and writes,
\* disk-UUID lookup, path conversion and devicetree installation never end a
\* run and never change what linux_exec is given: its arguments are those
\* that the image, the load options, the secure-boot state, the fragments and
\* the allocator determine.
C12_BestEffortNeverChangesOutcome ==
    /\ pc = "returned" => EndedByFatalStep
    /\ pc = "halted" => Did("combine_initrd")
    /\ exec_args.called => exec_args = ExpectedExec

\* a run in which splash, measurement, the UUID lookup, the path conversion
\* and the devicetree installation all failed, and linux_exec was called
C12_Witness ==
    /\ exec_args.called
    /\ CallOf("graphics_splash").arg # EFI_SUCCESS
    /\ Did("tpm_log_load_options")
    /\ CallOf("tpm_log_load_options").arg # EFI_SUCCESS
    /\ Did("log_oom")
    /\ Did("disk_get_part_uuid")
    /\ store["LoaderDevicePartUUID"] = NULL
    /\ Did("devicetree_install_from_memory")
    /\ CallOf("devicetree_install_from_memory").arg # EFI_SUCCESS
    /\ exec_args.cmdline.bytes = <<97, 98>>
    /\ exec_args.initrd_size = 19

\* where the write cursor stands after the last copy, as an offset from base
Cursor(reg) ==
    IF Len(reg.writes) = 0 THEN 0
    ELSE LET l == reg.writes[Len(reg.writes)] IN l.off + l.len

\* C13: the assertion at the end of combine_initrd holds in every run that
\* reaches it: whatever the size of the embedded initrd (0, with address 0,
\* included) and whichever fragments are present, the write cursor after the
\* last copy stands at base + total size.
C13_AssertionHolds ==
    /\ pc # "halted"
    /\ ~Did("efi_assert")
    /\ (Did("AllocatePages") /\ CallOf("AllocatePages").arg = EFI_SUCCESS) =>
          /\ Cursor(region) = region.n
          /\ (initrd_base = region.base /\ initrd_size = region.n)

\* no embedded initrd (address 0, size 0) and all three fragments
C13_Witness ==
    /\ Did("AllocatePages")
    /\ CallOf("AllocatePages").arg = EFI_SUCCESS
    /\ szs["initrd"] = 0
    /\ packed = [cred |-> Fragment("cred", 7), gcred |-> Fragment("gcred", 5),
                 sysext |-> Fragment("sysext", 3)]
    /\ region.n = 15
    /\ Cursor(region) = 15

SizeComputed == TotalSize(szs["initrd"], packed.cred, packed.gcred, packed.sysext)

\* ceil(n / page size), over the integers
CeilPages(n) == (n + EFI_PAGE_SIZE - 1) \div EFI_PAGE_SIZE

\* C15: a size computation that succeeds is followed by exactly one
\* AllocatePages request, for ceil(n / page size) pages; the pages handed out
\* lie at or below 0xFFFFFFFF; when the request fails the failure is reported,
\* efi_main gets the allocator's status, nothing is copied, the initrd address
\* and size stay as they were, and no second request is made.
C15_OneAllocationRequest ==
    /\ Count("AllocatePages") <= 1
    /\ Did("AllocatePages") => (Did("combine_initrd") /\ SizeComputed.ok)
    /\ (Did("combine_initrd") /\ SizeComputed.ok) =>
          /\ Count("AllocatePages") = 1
          /\ CallOf("AllocatePages").n = CeilPages(SizeComputed.n)
          /\ CallOf("combine_initrd").arg = CallOf("AllocatePages").arg
    /\ (Did("AllocatePages") /\ CallOf("AllocatePages").arg = EFI_SUCCESS) =>
          /\ region.pages = CeilPages(region.n)
          /\ region.base % EFI_PAGE_SIZE = 0
          /\ (region.base \div EFI_PAGE_SIZE) + region.pages - 1 <= Pow2(20) - 1
    /\ (Did("AllocatePages") /\ CallOf("AllocatePages").arg # EFI_SUCCESS) =>
          /\ pc = "returned"
          /\ err = CallOf("AllocatePages").arg
          /\ calls[Len(calls)] = Ev("log_error", err, 0)
          /\ region = NoRegion
          /\ initrd_base = EmbeddedInitrdBase
          /\ initrd_size = szs["initrd"]
          /\ ~exec_args.called

\* a request for the one page a 19-byte initrd needs, refused
C15_Witness ==
    /\ Did("AllocatePages")
    /\ CallOf("AllocatePages") = Ev("AllocatePages", EFI_OUT_OF_RESOURCES, 1)
    /\ SizeComputed.n = 19
    /\ pc = "returned"
    /\ region = NoRegion

\* the place of the first call of op in the call log of this run
IndexOf(op) == CHOOSE i \in 1..Len(calls) : calls[i].op = op

\* C16: the load options are measured once in a run exactly when the override
\* becomes the command line, before linux_exec is called; whether the
\* measurement succeeds changes neither the command line nor the course of
\* the run (export_variables comes next); with the embedded or the empty
\* command line nothing is measured.
C16_MeasuredIffOverride ==
    /\ Count("tpm_log_load_options") <= 1
    /\ Did("tpm_log_load_options") => PastCmdline
    /\ PastCmdline =>
          /\ Did("tpm_log_load_options") <=> OverrideRule
          /\ Did("tpm_log_load_options") <=> (cmdline.src = "owned")
          /\ cmdline \in {EmbeddedCmd, NoCmdline} => ~Did("tpm_log_load_options")
    /\ Did("tpm_log_load_options") =>
          LET i == IndexOf("tpm_log_load_options")
          IN  /\ calls[i - 1].op = "graphics_splash"
              /\ cmdline = [src |-> "owned", addr |-> 0, bytes |-> WholeOverride]
              /\ cmdline_len = Len(WholeOverride)
              /\ i < Len(calls) => calls[i + 1].op = "efivar_get_raw"
              /\ Did("linux_exec") => i < IndexOf("linux_exec")
              /\ exec_args.called =>
                    (exec_args.cmdline = cmdline /\ exec_args.cmdline_len = cmdline_len)

\* secure boot on, no embedded command line: the override is used, its
\* measurement fails, the kernel is started
C16_Witness ==
    /\ pc = "kernel"
    /\ secure
    /\ szs["cmdline"] = 0
    /\ loaded_image.LoadOptions = <<65, 1>>
    /\ Did("tpm_log_load_options")
    /\ CallOf("tpm_log_load_options").arg = EFI_DEVICE_ERROR
    /\ exec_args.cmdline.bytes = <<65>>

\* 16-bit code unit i (from 0) of the load options, little endian
CodeUnit(i) ==
    loaded_image.LoadOptions[2 * i + 1] + 256 * loaded_image.LoadOptions[2 * i + 2]

\* C17: when the override is accepted the command line has
\* floor(LoadOptionsSize / 2) bytes, and byte i is the low 8 bits of code
\* unit i of the load options, in the same order.
C17_TranscodedUnitByUnit ==
    (PastCmdline /\ cmdline.src = "owned") =>
        /\ cmdline_len = Len(loaded_image.LoadOptions) \div 2
        /\ Len(cmdline.bytes) = cmdline_len
        /\ \A i \in 0..(cmdline_len - 1) : cmdline.bytes[i + 1] = CodeUnit(i) % 256
        /\ exec_args.called =>
              (exec_args.cmdline.bytes = cmdline.bytes /\ exec_args.cmdline_len = cmdline_len)

\* five bytes of load options: two whole units, 0x0061 and 0x0162
C17_Witness ==
    /\ exec_args.called
    /\ loaded_image.LoadOptions = <<97, 0, 98, 1, 99>>
    /\ exec_args.cmdline.src = "owned"
    /\ exec_args.cmdline_len = 2
    /\ exec_args.cmdline.bytes = <<97, 98>>

FragmentNames == {"cred", "gcred", "sysext"}

\* C18: a fragment buffer is released only if a packaging request produced
\* it, and never twice; once combine_initrd succeeded every buffer produced
\* has been released and its pointer is NULL, so that is the case when the
\* devicetree is installed and when linux_exec is called; and when efi_main
\* has returned, on whichever path, every buffer produced has been released
\* exactly once.
C18_FragmentsReleasedOnce ==
    /\ \A f \in FragmentNames :
          /\ released[f] <= 1
          /\ released[f] = 1 => Present(packed[f])
    /\ (Did("combine_initrd") /\ CallOf("combine_initrd").arg = EFI_SUCCESS) =>
          /\ \A f \in FragmentNames : Present(packed[f]) => released[f] = 1
          /\ ~Present(credential_initrd)
          /\ ~Present(global_credential_initrd)
          /\ ~Present(sysext_initrd)
    /\ (Did("devicetree_install_from_memory") \/ Did("linux_exec")) =>
          \A f \in FragmentNames : Present(packed[f]) => released[f] = 1
    /\ pc = "returned" =>
          \A f \in FragmentNames : Present(packed[f]) => released[f] = 1

\* all three fragments produced and combined, linux_exec came back
C18_Witness ==
    /\ pc = "returned"
    /\ Did("linux_exec")
    /\ Did("combine_initrd")
    /\ \A f \in FragmentNames : Present(packed[f])
    /\ released = [cred |-> 1, gcred |-> 1, sysext |-> 1]

\* C19: when linux_exec comes back, the display is put into text mode next,
\* the failure is reported after that, and efi_main ends with the status
\* linux_exec returned; the display is put into text mode nowhere else, and
\* not when linux_exec does not come back.
C19_ExecReturnHandled ==
    /\ Count("graphics_mode") <= 1
    /\ pc = "kernel" => ~Did("graphics_mode")
    /\ (Did("linux_exec") /\ CallOf("linux_exec").arg # NoReturn) => Did("graphics_mode")
    /\ Did("graphics_mode") =>
          LET i == IndexOf("graphics_mode")
              status == calls[i - 1].arg
          IN  /\ calls[i] = Ev("graphics_mode", "text", 0)
              /\ calls[i - 1].op = "linux_exec"
              /\ status # NoReturn
              /\ Len(calls) = i + 1
              /\ calls[i + 1] = Ev("log_error", status, 0)
              /\ pc = "returned"
              /\ err = status

C19_Witness ==
    /\ pc = "returned"
    /\ Did("linux_exec")
    /\ err = EFI_LOAD_ERROR
    /\ calls[Len(calls) - 1] = Ev("graphics_mode", "text", 0)
    /\ calls[Len(calls)] = Ev("log_error", EFI_LOAD_ERROR, 0)

\* the steps in the order efi_main takes them
StepOrder ==
    <<"start", "locate", "splash", "cmdline", "export", "pack_cred", "pack_gcred",
      "pack_sysext", "resolve", "combine", "dt", "exec">>

Terminal == {"kernel", "returned", "halted"}

Rank(p) ==
    IF p \in Terminal THEN Len(StepOrder) + 1
    ELSE CHOOSE i \in 1..Len(StepOrder) : StepOrder[i] = p

\* a step leads to the step after it or ends the run; only a new run of
\* efi_main begins at the first step again
InOrder ==
    [][\/ pc' = pc
       \/ (pc = "returned" /\ pc' = "start" /\ boots' = boots + 1)
       \/ (pc \notin Terminal /\ pc' \in Terminal)
       \/ (pc \notin Terminal /\ pc' \notin Terminal /\ Rank(pc') = Rank(pc) + 1)]_vars

\* a run ends only by OpenProtocol, the section resolution, combine_initrd
\* or linux_exec
EndsWhereFatal ==
    [][(pc \notin Terminal /\ pc' \in Terminal) =>
          pc \in {"start", "locate", "combine", "exec"}]_vars

\* C20: every run of efi_main ends: from its first step it reaches
\* linux_exec or a fatal return, whatever the collaborators answer, taking
\* the steps in the fixed order (sections, splash, command line, variable
\* export, the three packaging requests, addresses, combine, devicetree,
\* linux_exec) and never going back to an earlier step.
C20_RunsToTheEndInOrder ==
    /\ InOrder
    /\ EndsWhereFatal
    /\ (pc = "start") ~> (pc \in Terminal)
    /\ \A b \in 1..MaxBoots : (boots = b /\ pc = "start") ~> (boots = b /\ pc \in Terminal)

\* a second run that went through every step and started the kernel
C20_Witness ==
    /\ pc = "kernel"
    /\ boots = 2
    /\ \A op \in {"OpenProtocol", "pe_memory_locate_sections", "graphics_splash",
                    "tpm_log_load_options", "efivar_get_raw", "combine_initrd",
                    "devicetree_install_from_memory", "linux_exec"} : Did(op)
    /\ Count("pack_cpio") = 3

=============================================================================
